---- MODULE Spec2Model ----
(***************************************************************************)
(* Model of pkg/module/storage_s3.go: the S3-backed Storage of the         *)
(* registry (GetModule, ListModuleVersions, UploadModule).                 *)
(*                                                                         *)
(* Strings are sequences of one-character strings, so that key encoding,   *)
(* prefix matching, key ordering and key parsing are computed, not         *)
(* assumed.  The bucket is a function from the keys that hold an object to *)
(* the object's content.  Callers are concurrent; an operation is split at *)
(* its backend calls (HeadObject, Upload, one ListObjectsV2 page), which   *)
(* are the only points where callers interleave.  Every backend call may   *)
(* fail for a transport/authorization reason (the input "fault").          *)
(***************************************************************************)
EXTENDS Naturals, Sequences, FiniteSets

VARIABLES
    s,          \* the S3Storage value: bucket, bucketPrefix, archiveFormat, bucketRegion
    store,      \* the bucket: key -> content, defined on the keys holding an object
    pc,         \* per caller: where its current operation stands
    args,       \* per caller: the arguments of its current (or last) operation
    modules,    \* per caller: the `modules` slice of ListModuleVersions
    token,      \* per caller: continuation of the listing (last key delivered)
    ret,        \* per caller: what its last operation returned
    calls,      \* history: per caller, the backend calls of its current (or last) operation
    written,    \* history: identities whose object an UploadModule has written
    succeeded,  \* history: identities for which an UploadModule returned success
    lastWriter, \* history: key -> caller whose write was the last one on it
    raced,      \* history: per caller, its upload stood past the probe together with another's
    ops,        \* history: number of operations started
    ctx,        \* per caller: the context of its call: "live", "cancelled", or "ignored"
                \* once a backend call was issued under the cancelled context
    aux         \* the run of NewS3Storage, or of the key functions on their own

vars == <<s, store, pc, args, modules, token, ret, calls, written, succeeded,
          lastWriter, raced, ops, ctx, aux>>

----------------------------------------------------------------------------
(* Bounds *)

\* objects per ListObjectsV2 page (S3 delivers up to 1000)
PageSize == 2

\* operations started in one behaviour
MaxOps == 3

\* the callers: both upload; c1 also reads and sends requests with fields missing
Procs == {"c1", "c2"}

Readers == {"c1"}

----------------------------------------------------------------------------
(* Strings *)

\* characters in byte order, as S3 orders keys
Alphabet == <<"-", ".", "/", "1", "2", "R", "a", "b", "g", "i", "m", "n", "p", "q", "r", "t", "z">>

Rank(c) == CHOOSE i \in 1..Len(Alphabet) : Alphabet[i] = c

Min(a, b) == IF a <= b THEN a ELSE b

\* a < b in byte order
LexLess(a, b) ==
    \E i \in 1..(Min(Len(a), Len(b)) + 1) :
        /\ \A j \in 1..(i - 1) : a[j] = b[j]
        /\ \/ i = Len(a) + 1 /\ i <= Len(b)
           \/ i <= Len(a) /\ i <= Len(b) /\ Rank(a[i]) < Rank(b[i])

HasPrefix(str, p) == Len(p) <= Len(str) /\ SubSeq(str, 1, Len(p)) = p

HasSuffix(str, x) ==
    Len(x) <= Len(str) /\ SubSeq(str, Len(str) - Len(x) + 1, Len(str)) = x

RECURSIVE Split(_, _)
Split(str, sep) ==
    IF \A i \in 1..Len(str) : str[i] # sep
    THEN <<str>>
    ELSE LET i == CHOOSE k \in 1..Len(str) :
                      str[k] = sep /\ \A j \in 1..(k - 1) : str[j] # sep
         IN  <<SubSeq(str, 1, i - 1)>> \o Split(SubSeq(str, i + 1, Len(str)), sep)

----------------------------------------------------------------------------
(* Key encoding and decoding.  storagePath, storagePrefix, objectMetadata   *)
(* and DefaultArchiveFormat are defined outside storage_s3.go; they follow *)
(* the documented layout                                                   *)
(*     <prefix>/<namespace>/<name>/<provider>/<name>-<version>.<format>    *)
(* with the listing prefix being the key up to and including the separator *)
(* after the provider, and the parse being the layout read backwards: the  *)
(* last segment must be <name>-<version>.<format> for the name two         *)
(* segments before it and a known archive format.                          *)

DefaultArchiveFormat == <<"t", "a", "r", ".", "g", "z">>

ArchiveFormats == {DefaultArchiveFormat, <<"z", "i", "p">>}

\* <prefix>/<namespace>/<name>/<provider>/
storagePrefix(prefix, namespace, name, provider) ==
    prefix \o <<"/">> \o namespace \o <<"/">> \o name \o <<"/">> \o provider \o <<"/">>

\* <prefix>/<namespace>/<name>/<provider>/<name>-<version>.<format>
storagePath(prefix, namespace, name, provider, version, archiveFormat) ==
    storagePrefix(prefix, namespace, name, provider)
        \o name \o <<"-">> \o version \o <<".">> \o archiveFormat

NoMetadata == [k \in {} |-> <<>>]

\* the key parsed against the path shape; no "version" entry when it does not fit
objectMetadata(key) ==
    LET segs == Split(key, "/")
        n    == Len(segs)
    IN  IF n < 4 THEN NoMetadata
        ELSE
        LET name == segs[n - 2]
            file == segs[n]
            head == name \o <<"-">>
            rest == SubSeq(file, Len(head) + 1, Len(file))
            fmts == {f \in ArchiveFormats :
                        HasSuffix(rest, <<".">> \o f) /\ Len(rest) > Len(f) + 1}
        IN  IF ~HasPrefix(file, head) \/ fmts = {} THEN NoMetadata
            ELSE LET f == CHOOSE x \in fmts : TRUE
                 IN  [k \in {"namespace", "name", "provider", "version"} |->
                        CASE k = "namespace" -> segs[n - 3]
                          [] k = "name"      -> name
                          [] k = "provider"  -> segs[n - 1]
                          [] OTHER           -> SubSeq(rest, 1, Len(rest) - Len(f) - 1)]

----------------------------------------------------------------------------
(* Values *)

\* the archive each caller uploads
BodyOf == [p \in Procs |-> IF p = "c1" THEN "x" ELSE "y"]

Prefixes == {<<"b">>}

Identity(namespace, name, provider, version) ==
    [namespace |-> namespace, name |-> name, provider |-> provider, version |-> version]

\* identities with every field set
ValidIds ==
    { Identity(<<"n">>, <<"m">>, <<"p">>, <<"1">>),
      Identity(<<"n">>, <<"m">>, <<"p">>, <<"2">>),
      Identity(<<"n">>, <<"m">>, <<"p", "q">>, <<"1">>) }

\* identities with one or more fields empty
InvalidIds ==
    { Identity(<<>>, <<>>, <<>>, <<>>),
      Identity(<<"n">>, <<>>, <<>>, <<>>),
      Identity(<<"n">>, <<"m">>, <<>>, <<>>),
      Identity(<<"n">>, <<"m">>, <<"p">>, <<>>) }

\* the (namespace, name, provider) of the identities
Triples == {[namespace |-> id.namespace, name |-> id.name, provider |-> id.provider] :
               id \in ValidIds}

\* Module is the value the Storage operations return
Module(namespace, name, provider, version, url) ==
    [Namespace |-> namespace, Name |-> name, Provider |-> provider,
     Version |-> version, DownloadURL |-> url]

\* Module{}
EmptyModule == Module(<<>>, <<>>, <<>>, <<>>, <<>>)

Nil == [kind |-> "nil", msg |-> <<>>]

\* errors.Wrap(kind, msg): the cause is kind, the text carries msg
Wrap(kind, msg) == [kind |-> kind, msg |-> msg]

\* errors.New(text)
New(text) == [kind |-> "New", msg |-> <<text>>]

\* fmt.Sprintf("%s.s3-%s.amazonaws.com/%s", bucket, region, key)
DownloadURL(bucket, region, key) ==
    <<bucket, ".s3-", region, ".amazonaws.com/">> \o key

----------------------------------------------------------------------------
(* The object store *)

\* HeadObject: nil, or the text of the error
HeadObject(st, key, fault) ==
    IF fault THEN <<"RequestError">>
    ELSE IF key \notin DOMAIN st THEN <<"NotFound">>
    ELSE <<>>

\* a probe that leaves an empty object at the key
HeadEffectCreate(st, key) ==
    [k \in DOMAIN st \cup {key} |-> IF k \in DOMAIN st THEN st[k] ELSE ""]

\* the bucket after HeadObject: as before
HeadEffect(st, key) == st

\* a write that leaves the new object alone in the bucket
PutObjectOnly(st, key, body) == [k \in {key} |-> body]

\* a write that keeps the object already stored
PutObjectIfAbsent(st, key, body) ==
    [k \in DOMAIN st \cup {key} |-> IF k \in DOMAIN st THEN st[k] ELSE body]

\* the write of uploader.Upload: the object at key is replaced
PutObject(st, key, body) ==
    [k \in DOMAIN st \cup {key} |-> IF k = key THEN body ELSE st[k]]

RECURSIVE Sorted(_)
Sorted(S) ==
    IF S = {} THEN <<>>
    ELSE LET m == CHOOSE x \in S : \A y \in S \ {x} : LexLess(x, y)
         IN  <<m>> \o Sorted(S \ {m})

\* one ListObjectsV2 response: the next PageSize keys under prefix after `after`
ListObjectsV2(st, prefix, after) ==
    LET all == Sorted({k \in DOMAIN st : HasPrefix(k, prefix) /\ LexLess(after, k)})
    IN  [Contents    |-> SubSeq(all, 1, Min(PageSize, Len(all))),
         IsTruncated |-> Len(all) > PageSize]

----------------------------------------------------------------------------
(* GetModule *)

\* a GetModule that reports success without looking at the probe
GetModuleNoProbe(cfg, st, namespace, name, provider, version, fault) ==
    LET key == storagePath(cfg.bucketPrefix, namespace, name, provider, version,
                           cfg.archiveFormat)
    IN  [module |-> Module(namespace, name, provider, version,
                           DownloadURL(cfg.bucket, cfg.bucketRegion, key)),
         err    |-> Nil]

GetModule(cfg, st, namespace, name, provider, version, fault) ==
    LET key == storagePath(cfg.bucketPrefix, namespace, name, provider, version,
                           cfg.archiveFormat)
        e   == HeadObject(st, key, fault)
    IN  IF e # <<>>
        THEN [module |-> EmptyModule, err |-> Wrap("ErrNotFound", e)]
        ELSE [module |-> Module(namespace, name, provider, version,
                                DownloadURL(cfg.bucket, cfg.bucketRegion, key)),
              err    |-> Nil]

----------------------------------------------------------------------------
(* ListModuleVersions *)

\* a listing prefix that leaves the provider out
ListInputPrefixNoProvider(cfg, namespace, name, provider) ==
    storagePrefix(cfg.bucketPrefix, namespace, name, <<>>)

\* input.Prefix
ListInputPrefix(cfg, namespace, name, provider) ==
    storagePrefix(cfg.bucketPrefix, namespace, name, provider)

\* a callback body that stops at the first key without a version
RECURSIVE PageModulesBreak(_, _, _, _, _, _)
PageModulesBreak(cfg, mods, contents, namespace, name, provider) ==
    IF contents = <<>> THEN mods
    ELSE LET metadata == objectMetadata(Head(contents))
         IN  IF "version" \notin DOMAIN metadata THEN mods
             ELSE PageModulesBreak(cfg,
                      Append(mods, Module(namespace, name, provider, metadata["version"],
                                 DownloadURL(cfg.bucket, cfg.bucketRegion, Head(contents)))),
                      Tail(contents), namespace, name, provider)

\* the loop of the page callback: `modules` after one page
RECURSIVE PageModules(_, _, _, _, _, _)
PageModules(cfg, mods, contents, namespace, name, provider) ==
    IF contents = <<>> THEN mods
    ELSE LET metadata == objectMetadata(Head(contents))
             rest     == Tail(contents)
         IN  IF "version" \notin DOMAIN metadata
             THEN PageModules(cfg, mods, rest, namespace, name, provider)
             ELSE PageModules(cfg,
                      Append(mods, Module(namespace, name, provider, metadata["version"],
                                 DownloadURL(cfg.bucket, cfg.bucketRegion, Head(contents)))),
                      rest, namespace, name, provider)

\* a failed listing that hands back what the earlier pages gave, without an error
ListFailurePartial(mods, e) == [modules |-> mods, err |-> Nil]

\* return nil, errors.Wrap(ErrListFailed, err.Error())
ListFailure(mods, e) == [modules |-> <<>>, err |-> Wrap("ErrListFailed", e)]

\* a callback that asks for the next page only on the last one
PageCallbackReturnLast(last) == last

\* the value the page callback returns: carry on
PageCallbackReturn(last) == TRUE

----------------------------------------------------------------------------
(* UploadModule *)

\* a validation that forgets the provider
ValidateNoProvider(namespace, name, provider, version) ==
    IF namespace = <<>> THEN New("namespace not defined")
    ELSE IF name = <<>> THEN New("name not defined")
    ELSE IF version = <<>> THEN New("version not defined")
    ELSE Nil

\* the four checks that open UploadModule
Validate(namespace, name, provider, version) ==
    IF namespace = <<>> THEN New("namespace not defined")
    ELSE IF name = <<>> THEN New("name not defined")
    ELSE IF provider = <<>> THEN New("provider not defined")
    ELSE IF version = <<>> THEN New("version not defined")
    ELSE Nil

\* an existence check that never finds the module
ProbeFoundNever(r) == FALSE

\* the existence check: err == nil
ProbeFound(r) == r.err = Nil

\* a write key that follows the configured archive format
UploadKeyConfigured(cfg, namespace, name, provider, version) ==
    storagePath(cfg.bucketPrefix, namespace, name, provider, version, cfg.archiveFormat)

\* key, and input.Key: always the default archive format
UploadKey(cfg, namespace, name, provider, version) ==
    storagePath(cfg.bucketPrefix, namespace, name, provider, version, DefaultArchiveFormat)

\* the key GetModule probes
GetKey(cfg, namespace, name, provider, version) ==
    storagePath(cfg.bucketPrefix, namespace, name, provider, version, cfg.archiveFormat)

\* a return that hands back the caller's input without the re-read
UploadReturnInput(cfg, st, namespace, name, provider, version, fault) ==
    [module |-> Module(namespace, name, provider, version,
                       DownloadURL(cfg.bucket, cfg.bucketRegion,
                                   UploadKey(cfg, namespace, name, provider, version))),
     err    |-> Nil]

\* return s.GetModule(ctx, namespace, name, provider, version)
UploadReturn(cfg, st, namespace, name, provider, version, fault) ==
    GetModule(cfg, st, namespace, name, provider, version, fault)

----------------------------------------------------------------------------
(* State *)

\* one backend call in the history of an operation, and whether it went through
Call(name, ok) == [call |-> name, ok |-> ok]

NoRet == [op |-> "none", module |-> EmptyModule, modules |-> <<>>, err |-> Nil]

Ret(op, module, mods, err) == [op |-> op, module |-> module, modules |-> mods, err |-> err]

\* the arguments of a call, with the history the properties refer to, taken
\* when the call starts: had, an object is at the key GetModule probes; stored0,
\* an UploadModule has written the identity; after, an UploadModule of the identity
\* has returned success; keys0 and versions0 (ListModuleVersions), the keys under
\* the listing's prefix and the versions uploaded under its (namespace, name, provider)
Args(op, namespace, name, provider, version, body) ==
    LET id == Identity(namespace, name, provider, version)
        isList == op = "ListModuleVersions"
    IN  [op |-> op, namespace |-> namespace, name |-> name, provider |-> provider,
         version |-> version, body |-> body,
         had     |-> ~isList /\ GetKey(s, namespace, name, provider, version) \in DOMAIN store,
         stored0 |-> ~isList /\ id \in written,
         after   |-> ~isList /\ id \in succeeded,
         keys0   |-> IF isList
                     THEN {k \in DOMAIN store :
                              HasPrefix(k, storagePrefix(s.bucketPrefix, namespace, name, provider))}
                     ELSE {},
         versions0 |-> IF isList
                       THEN {w.version : w \in {x \in written :
                                /\ x.namespace = namespace /\ x.name = name
                                /\ x.provider = provider}}
                       ELSE {}]

NoArgs ==
    [op |-> "none", namespace |-> <<>>, name |-> <<>>, provider |-> <<>>,
     version |-> <<>>, body |-> "", had |-> FALSE, stored0 |-> FALSE, after |-> FALSE,
     keys0 |-> {}, versions0 |-> {}]

\* objects another tool left in the bucket: one whose key has no version, one with
\* another archive format
ForeignKeys(prefix) ==
    { storagePrefix(prefix, <<"n">>, <<"m">>, <<"p">>) \o <<"R">>,
      storagePath(prefix, <<"n">>, <<"m">>, <<"p">>, <<"1">>, <<"z", "i", "p">>) }

NoAux == [pc |-> "none"]

\* no operation has been called
NoCalls ==
    /\ ctx = [p \in Procs |-> "live"]
    /\ pc = [p \in Procs |-> "idle"]
    /\ args = [p \in Procs |-> NoArgs]
    /\ modules = [p \in Procs |-> <<>>]
    /\ token = [p \in Procs |-> <<>>]
    /\ ret = [p \in Procs |-> NoRet]
    /\ calls = [p \in Procs |-> <<>>]
    /\ written = {}
    /\ succeeded = {}
    /\ lastWriter = [k \in {} |-> "c1"]
    /\ raced = [p \in Procs |-> FALSE]
    /\ ops = 0

\* NewS3Storage with its options applied and the region known
Init ==
    /\ \E prefix \in Prefixes, format \in ArchiveFormats :
          s = [bucket |-> "bucket", bucketPrefix |-> prefix,
               archiveFormat |-> format, bucketRegion |-> "region"]
    /\ \E K \in {{}, ForeignKeys(s.bucketPrefix)} : store = [k \in K |-> "f"]
    /\ aux = NoAux
    /\ NoCalls

\* a caller starts an operation, under a context of its own
Start(p, a) ==
    /\ pc[p] = "idle"
    /\ ops < MaxOps
    /\ ops' = ops + 1
    /\ args' = [args EXCEPT ![p] = a]
    /\ ctx' = [ctx EXCEPT ![p] = "live"]
    /\ UNCHANGED aux

\* p's operation issues a further backend call: ctx is not consulted, and none of
\* the calls (HeadObject, ListObjectsV2Pages, Upload) is given it
Issue(p) ==
    /\ ctx' = [ctx EXCEPT ![p] = IF @ = "cancelled" THEN "ignored" ELSE @]
    /\ UNCHANGED aux

----------------------------------------------------------------------------
(* Operations *)

\* GetModule, called by p
DoGetModule(p, namespace, name, provider, version, fault) ==
    /\ Start(p, Args("GetModule", namespace, name, provider, version, ""))
    /\ LET r == GetModule(s, store, namespace, name, provider, version, fault)
       IN  ret' = [ret EXCEPT ![p] = Ret("GetModule", r.module, <<>>, r.err)]
    /\ calls' = [calls EXCEPT ![p] =
                    <<Call("HeadObject",
                           HeadObject(store, GetKey(s, namespace, name, provider, version),
                                      fault) = <<>>)>>]
    /\ raced' = [raced EXCEPT ![p] = FALSE]
    /\ store' = HeadEffect(store, GetKey(s, namespace, name, provider, version))
    /\ UNCHANGED <<s, pc, modules, token, written, succeeded, lastWriter>>

\* one round of ListObjectsV2Pages for p, whose call has arguments a, slice mods
\* and continuation tok: the request, the callback, and the return when it ends
ListRound(p, a, mods, tok, log, fault) ==
    LET page == ListObjectsV2(store, ListInputPrefix(s, a.namespace, a.name, a.provider), tok)
        last == ~page.IsTruncated
        next == PageModules(s, mods, page.Contents, a.namespace, a.name, a.provider)
    IN  /\ calls' = [calls EXCEPT ![p] = Append(log, Call("ListObjectsV2", ~fault))]
        /\ IF fault
           THEN /\ LET f == ListFailure(mods, <<"RequestError">>)
                   IN  ret' = [ret EXCEPT ![p] =
                                  Ret("ListModuleVersions", EmptyModule, f.modules, f.err)]
                /\ pc' = [pc EXCEPT ![p] = "idle"]
                /\ modules' = [modules EXCEPT ![p] = <<>>]
                /\ token' = [token EXCEPT ![p] = <<>>]
           ELSE IF last \/ ~PageCallbackReturn(last)
           THEN /\ ret' = [ret EXCEPT ![p] = Ret("ListModuleVersions", EmptyModule, next, Nil)]
                /\ pc' = [pc EXCEPT ![p] = "idle"]
                /\ modules' = [modules EXCEPT ![p] = <<>>]
                /\ token' = [token EXCEPT ![p] = <<>>]
           ELSE /\ ret' = [ret EXCEPT ![p] = NoRet]
                /\ pc' = [pc EXCEPT ![p] = "list"]
                /\ modules' = [modules EXCEPT ![p] = next]
                /\ token' = [token EXCEPT ![p] = page.Contents[Len(page.Contents)]]

\* ListModuleVersions, called by p: up to the first page
DoListModuleVersions(p, namespace, name, provider, fault) ==
    /\ Start(p, Args("ListModuleVersions", namespace, name, provider, <<>>, ""))
    /\ ListRound(p, args'[p], <<>>, <<>>, <<>>, fault)
    /\ raced' = [raced EXCEPT ![p] = FALSE]
    /\ UNCHANGED <<s, store, written, succeeded, lastWriter>>

\* ListModuleVersions of p: a further page
ListNextPage(p, fault) ==
    /\ pc[p] = "list"
    /\ Issue(p)
    /\ ListRound(p, args[p], modules[p], token[p], calls[p], fault)
    /\ UNCHANGED <<s, store, args, written, succeeded, lastWriter, raced, ops>>

\* UploadModule, called by p: the validation and the existence check
DoUploadModule(p, namespace, name, provider, version, body, fault) ==
    /\ Start(p, Args("UploadModule", namespace, name, provider, version, body))
    /\ LET v   == Validate(namespace, name, provider, version)
           key == UploadKey(s, namespace, name, provider, version)
           r   == GetModule(s, store, namespace, name, provider, version, fault)
           id  == Identity(namespace, name, provider, version)
       IN  IF v # Nil
           THEN /\ ret' = [ret EXCEPT ![p] = Ret("UploadModule", EmptyModule, <<>>, v)]
                /\ calls' = [calls EXCEPT ![p] = <<>>]
                /\ raced' = [raced EXCEPT ![p] = FALSE]
                /\ UNCHANGED pc
           ELSE IF ProbeFound(r)
           THEN /\ ret' = [ret EXCEPT ![p] =
                              Ret("UploadModule", EmptyModule, <<>>, Wrap("ErrAlreadyExists", key))]
                /\ calls' = [calls EXCEPT ![p] = <<Call("HeadObject", TRUE)>>]
                /\ raced' = [raced EXCEPT ![p] = FALSE]
                /\ UNCHANGED pc
           ELSE /\ ret' = [ret EXCEPT ![p] = NoRet]
                /\ calls' = [calls EXCEPT ![p] = <<Call("HeadObject", r.err = Nil)>>]
                /\ pc' = [pc EXCEPT ![p] = "upload"]
                /\ raced' = [q \in Procs |->
                               IF \E o \in Procs \ {p} :
                                     /\ pc[o] = "upload"
                                     /\ Identity(args[o].namespace, args[o].name,
                                                 args[o].provider, args[o].version) = id
                                     /\ q \in {p, o}
                               THEN TRUE
                               ELSE IF q = p THEN FALSE ELSE raced[q]]
    /\ UNCHANGED <<s, store, modules, token, written, succeeded, lastWriter>>

\* UploadModule of p: uploader.Upload
UploadWrite(p, fault) ==
    /\ pc[p] = "upload"
    /\ Issue(p)
    /\ calls' = [calls EXCEPT ![p] = Append(@, Call("Upload", ~fault))]
    /\ LET a   == args[p]
           key == UploadKey(s, a.namespace, a.name, a.provider, a.version)
       IN  IF fault
           THEN /\ ret' = [ret EXCEPT ![p] =
                              Ret("UploadModule", EmptyModule, <<>>,
                                  Wrap("ErrUploadFailed", <<"RequestError">>))]
                /\ pc' = [pc EXCEPT ![p] = "idle"]
                /\ UNCHANGED <<store, written, lastWriter>>
           ELSE /\ store' = PutObject(store, key, a.body)
                /\ written' = written \cup {Identity(a.namespace, a.name, a.provider, a.version)}
                /\ lastWriter' = [k \in DOMAIN lastWriter \cup {key} |->
                                     IF k = key THEN p ELSE lastWriter[k]]
                /\ pc' = [pc EXCEPT ![p] = "reread"]
                /\ UNCHANGED ret
    /\ UNCHANGED <<s, args, modules, token, succeeded, raced, ops>>

\* UploadModule of p: the re-read it returns
UploadReread(p, fault) ==
    /\ pc[p] = "reread"
    /\ Issue(p)
    /\ LET a == args[p]
           r == UploadReturn(s, store, a.namespace, a.name, a.provider, a.version, fault)
       IN  /\ calls' = [calls EXCEPT ![p] = Append(@, Call("HeadObject", r.err = Nil))]
           /\ ret' = [ret EXCEPT ![p] = Ret("UploadModule", r.module, <<>>, r.err)]
           /\ succeeded' = IF r.err = Nil
                           THEN succeeded \cup
                                   {Identity(a.namespace, a.name, a.provider, a.version)}
                           ELSE succeeded
    /\ pc' = [pc EXCEPT ![p] = "idle"]
    /\ UNCHANGED <<s, store, args, modules, token, written, lastWriter, raced, ops>>

Next ==
    \E p \in Procs :
        \/ \E fault \in BOOLEAN :
              \/ \E id \in ValidIds :
                    /\ p \in Readers
                    /\ DoGetModule(p, id.namespace, id.name, id.provider, id.version, fault)
              \/ \E id \in ValidIds :
                    DoUploadModule(p, id.namespace, id.name, id.provider, id.version,
                                   BodyOf[p], fault)
              \/ \E t \in Triples :
                    /\ p \in Readers
                    /\ DoListModuleVersions(p, t.namespace, t.name, t.provider, fault)
              \/ ListNextPage(p, fault)
              \/ UploadWrite(p, fault)
              \/ UploadReread(p, fault)
        \* no backend call is reached with a field missing
        \/ \E id \in InvalidIds :
              /\ p \in Readers
              /\ DoUploadModule(p, id.namespace, id.name, id.provider, id.version,
                                BodyOf[p], FALSE)

Spec == Init /\ [][Next]_vars

\* the caller's context is cancelled, or its deadline fires, while its operation
\* stands between two backend calls
Cancel(p) ==
    /\ pc[p] \in {"list", "upload", "reread"}
    /\ ctx[p] = "live"
    /\ ctx' = [ctx EXCEPT ![p] = "cancelled"]
    /\ UNCHANGED <<s, store, pc, args, modules, token, ret, calls, written, succeeded,
                   lastWriter, raced, ops, aux>>

NextCtx ==
    \/ Next
    \/ \E p \in Procs : Cancel(p)

\* the operations under contexts that may be cancelled
SpecCtx == Init /\ [][NextCtx]_vars

----------------------------------------------------------------------------
(* NewS3Storage *)

MaxOptions == 2

\* the regions of the buckets: what a successful GetBucketRegionWithClient reports
BucketRegions == {"us"}

NoStorage == [bucket |-> "nil"]

\* &S3Storage{s3: s3.New(sess), uploader: ..., bucket: bucket, archiveFormat: DefaultArchiveFormat}
NewStorage(bucket) ==
    [bucket |-> bucket, bucketPrefix |-> <<>>, archiveFormat |-> DefaultArchiveFormat,
     bucketRegion |-> "", pathStyle |-> FALSE, bucketEndpoint |-> "",
     clientEndpoint |-> "", forcePathStyle |-> FALSE]

WithS3StorageBucketPrefix(prefix, st) == [st EXCEPT !.bucketPrefix = prefix]

WithS3ArchiveFormat(archiveFormat, st) == [st EXCEPT !.archiveFormat = archiveFormat]

WithS3StorageBucketRegion(region, st) == [st EXCEPT !.bucketRegion = region]

WithS3StorageBucketEndpoint(endpoint, st) ==
    [st EXCEPT !.clientEndpoint = IF endpoint # "" THEN endpoint ELSE @,
               !.bucketEndpoint = "aws sdk default"]

WithS3StoragePathStyle(pathStyle, st) ==
    [st EXCEPT !.forcePathStyle = IF pathStyle THEN TRUE ELSE @,
               !.pathStyle = pathStyle]

\* the options a caller may pass, each with its argument
Options ==
    {<<"WithS3StorageBucketPrefix", <<"b">>>>,
     <<"WithS3ArchiveFormat", <<"z", "i", "p">>>>,
     <<"WithS3StorageBucketRegion", "eu">>,
     <<"WithS3StorageBucketRegion", "">>,
     <<"WithS3StorageBucketEndpoint", "minio">>,
     <<"WithS3StorageBucketEndpoint", "">>,
     <<"WithS3StoragePathStyle", TRUE>>,
     <<"WithS3StoragePathStyle", FALSE>>}

\* option(s)
Apply(option, st) ==
    CASE option[1] = "WithS3StorageBucketPrefix" -> WithS3StorageBucketPrefix(option[2], st)
      [] option[1] = "WithS3ArchiveFormat" -> WithS3ArchiveFormat(option[2], st)
      [] option[1] = "WithS3StorageBucketRegion" -> WithS3StorageBucketRegion(option[2], st)
      [] option[1] = "WithS3StorageBucketEndpoint" -> WithS3StorageBucketEndpoint(option[2], st)
      [] option[1] = "WithS3StoragePathStyle" -> WithS3StoragePathStyle(option[2], st)

\* a construction that looks the region up whatever was configured
NeedsDiscoveryAlways(st) == TRUE

\* if s.bucketRegion == ""
NeedsDiscovery(st) == st.bucketRegion = ""

\* a call NewS3Storage(bucket, options...) about to run: st is the S3Storage under
\* construction, applied the number of options run, discovery the log of the region
\* lookups (each with what was applied when it was made), backend and err the results
NewCall(options) ==
    [pc |-> "session", options |-> options, applied |-> 0, st |-> NoStorage,
     discovery |-> <<>>, backend |-> NoStorage, err |-> Nil]

\* the backend's operations are not called meanwhile
NoOperation ==
    UNCHANGED <<s, store, pc, args, modules, token, ret, calls, written, succeeded,
                lastWriter, raced, ops, ctx>>

InitNew ==
    /\ s = [bucket |-> "bucket", bucketPrefix |-> <<"b">>,
            archiveFormat |-> DefaultArchiveFormat, bucketRegion |-> "region"]
    /\ store = [k \in {} |-> "f"]
    /\ NoCalls
    /\ \E n \in 0..MaxOptions : \E options \in [1..n -> Options] : aux = NewCall(options)

\* session.NewSession(), and the S3Storage made of the session
NewSession(fault) ==
    /\ aux.pc = "session"
    /\ NoOperation
    /\ aux' = IF fault
              THEN [aux EXCEPT !.pc = "done", !.err = New("session")]
              ELSE [aux EXCEPT !.pc = "options", !.st = NewStorage("bucket")]

\* for _, option := range options: one turn of the loop
ApplyOption ==
    /\ aux.pc = "options"
    /\ aux.applied < Len(aux.options)
    /\ NoOperation
    /\ aux' = [aux EXCEPT !.applied = @ + 1,
                          !.st = Apply(aux.options[aux.applied + 1], @)]

\* after the loop: determineBucketRegion if no region is set, and the return
Finish(fault, region) ==
    /\ aux.pc = "options"
    /\ aux.applied = Len(aux.options)
    /\ NoOperation
    /\ aux' = IF NeedsDiscovery(aux.st)
              THEN IF fault
                   THEN [aux EXCEPT !.pc = "done",
                                    !.discovery = Append(@, [ok |-> FALSE, applied |-> aux.applied]),
                                    !.err = Wrap("failed to determine bucket region",
                                                 <<"RequestError">>)]
                   ELSE [aux EXCEPT !.pc = "done",
                                    !.discovery = Append(@, [ok |-> TRUE, applied |-> aux.applied]),
                                    !.st = [@ EXCEPT !.bucketRegion = region],
                                    !.backend = [aux.st EXCEPT !.bucketRegion = region]]
              ELSE [aux EXCEPT !.pc = "done", !.backend = aux.st]

NextNew ==
    \/ \E fault \in BOOLEAN : NewSession(fault)
    \/ ApplyOption
    \/ \E fault \in BOOLEAN, region \in BucketRegions : Finish(fault, region)

\* one call of NewS3Storage
SpecNew == InitNew /\ [][NextNew]_vars

----------------------------------------------------------------------------
(* The key functions on their own *)

\* identity tuples of non-empty strings, as UploadModule accepts them: the fields
\* are not restricted to any alphabet
KeyTuples ==
    {Identity(namespace, name, provider, version) :
        namespace \in {<<"n">>, <<"n", "/", "m">>},
        name \in {<<"m">>, <<"m", "-", "1">>},
        provider \in {<<"p">>, <<"m", "/", "p">>},
        version \in {<<"1">>, <<"1", "-", "1">>, <<"1", "/", "2">>}}

\* two identities to encode under one prefix and format
KeyCall(a, b, prefix, format) ==
    [pc |-> "tuples", a |-> a, b |-> b, prefix |-> prefix, format |-> format,
     ka |-> <<>>, kb |-> <<>>, meta |-> NoMetadata]

InitKey ==
    /\ s = [bucket |-> "bucket", bucketPrefix |-> <<"b">>,
            archiveFormat |-> DefaultArchiveFormat, bucketRegion |-> "region"]
    /\ store = [k \in {} |-> "f"]
    /\ NoCalls
    /\ \E a \in KeyTuples, b \in KeyTuples, prefix \in Prefixes, format \in ArchiveFormats :
          aux = KeyCall(a, b, prefix, format)

\* storagePath of both identities
Encode ==
    /\ aux.pc = "tuples"
    /\ NoOperation
    /\ aux' = [aux EXCEPT
                 !.pc = "keys",
                 !.ka = storagePath(aux.prefix, aux.a.namespace, aux.a.name, aux.a.provider,
                                    aux.a.version, aux.format),
                 !.kb = storagePath(aux.prefix, aux.b.namespace, aux.b.name, aux.b.provider,
                                    aux.b.version, aux.format)]

\* objectMetadata of the first key, as the listing's callback applies it
Parse ==
    /\ aux.pc = "keys"
    /\ NoOperation
    /\ aux' = [aux EXCEPT !.pc = "parsed", !.meta = objectMetadata(aux.ka)]

NextKey ==
    \/ Encode
    \/ Parse

SpecKey == InitKey /\ [][NextKey]_vars

----------------------------------------------------------------------------
(* Vocabulary of the properties *)

\* p's last operation was op and has returned: args[p], calls[p] and ret[p] are its
Returned(p, op) == pc[p] = "idle" /\ ret[p].op = op

IdOf(a) == Identity(a.namespace, a.name, a.provider, a.version)

\* the object writes p's operation has performed
Writes(p) == Cardinality({i \in DOMAIN calls[p] : calls[p][i] = Call("Upload", TRUE)})

\* the backend answered the probe of a GetModule that returned r
Answered(r) == r.err.msg # <<"RequestError">>

HasVersion(key) == "version" \in DOMAIN objectMetadata(key)

\* the Module ListModuleVersions makes of the object at key
Listed(a, key) ==
    Module(a.namespace, a.name, a.provider, objectMetadata(key)["version"],
           DownloadURL(s.bucket, s.bucketRegion, key))

InSeq(x, seq) == \E i \in DOMAIN seq : seq[i] = x

\* the versions UploadModule has written under the (namespace, name, provider) of a
Uploaded(a) ==
    {w.version : w \in {x \in written :
        x.namespace = a.namespace /\ x.name = a.name /\ x.provider = a.provider}}

\* every object under the listing's prefix was written by an UploadModule
OnlyUploads(a) ==
    \A k \in DOMAIN store :
        HasPrefix(k, storagePrefix(s.bucketPrefix, a.namespace, a.name, a.provider))
            => \E w \in written :
                  k = UploadKey(s, w.namespace, w.name, w.provider, w.version)

----------------------------------------------------------------------------
(* Properties *)

\* C1 (as claimed): an UploadModule for an identity whose object an earlier
\* UploadModule has stored performs no write and returns AlreadyExists carrying
\* the key, whatever the configured archive format.
DuplicateUploadRejected ==
    \A p \in Procs :
        (args[p].op = "UploadModule" /\ args[p].stored0)
            => /\ Writes(p) = 0
               /\ Returned(p, "UploadModule")
                    => ret[p].err =
                          Wrap("ErrAlreadyExists",
                               UploadKey(s, args[p].namespace, args[p].name,
                                         args[p].provider, args[p].version))

\* C2 (as claimed): an UploadModule that returns without error has performed
\* exactly one write, and one that returns an error has performed none.
OneWriteOnSuccessNoneOnFailure ==
    \A p \in Procs :
        Returned(p, "UploadModule")
            => /\ ret[p].err = Nil => Writes(p) = 1
               /\ ret[p].err # Nil => Writes(p) = 0

\* C3: once an UploadModule of an identity has returned success, the object is at
\* the key GetModule probes, and every later GetModule of the identity that the
\* store answers returns no error and a Module carrying the four inputs.
UploadThenGet ==
    /\ \A id \in succeeded :
          GetKey(s, id.namespace, id.name, id.provider, id.version) \in DOMAIN store
    /\ \A p \in Procs :
          (Returned(p, "GetModule") /\ args[p].after /\ Answered(ret[p]))
              => /\ ret[p].err = Nil
                 /\ ret[p].module.Namespace = args[p].namespace
                 /\ ret[p].module.Name = args[p].name
                 /\ ret[p].module.Provider = args[p].provider
                 /\ ret[p].module.Version = args[p].version

UploadThenGetWitness ==
    \E p \in Procs :
        /\ Returned(p, "GetModule") /\ args[p].after
        /\ ret[p].err = Nil
        /\ ret[p].module.Version = <<"1">>

\* two uploads of one identity that both stood between the existence check and
\* the write, and have both returned
BothRaced(p, q) ==
    /\ p # q
    /\ raced[p] /\ raced[q]
    /\ Returned(p, "UploadModule") /\ Returned(q, "UploadModule")
    /\ IdOf(args[p]) = IdOf(args[q])

\* C4: when two uploads of one identity have both passed the existence check
\* before either wrote, neither returns AlreadyExists; and when both writes went
\* through, both have written and the stored content is the last writer's.
CheckThenWriteRace ==
    \A p \in Procs, q \in Procs :
        BothRaced(p, q)
            => LET key == UploadKey(s, args[p].namespace, args[p].name,
                                    args[p].provider, args[p].version)
               IN  /\ ret[p].err.kind # "ErrAlreadyExists"
                   /\ ret[q].err.kind # "ErrAlreadyExists"
                   /\ (Writes(p) = 1 /\ Writes(q) = 1)
                        => /\ lastWriter[key] \in {p, q}
                           /\ store[key] = args[lastWriter[key]].body

\* the interleaving of C4: both raced, both wrote, both returned success, and the
\* content of the first writer is gone
CheckThenWriteRaceWitness ==
    \E p \in Procs, q \in Procs :
        /\ BothRaced(p, q)
        /\ Writes(p) = 1 /\ Writes(q) = 1
        /\ ret[p].err = Nil /\ ret[q].err = Nil
        /\ LET key == UploadKey(s, args[p].namespace, args[p].name,
                                args[p].provider, args[p].version)
           IN  lastWriter[key] = q /\ store[key] = args[q].body /\ store[key] # args[p].body

ListTwoVersionsWitness ==
    \E p \in Procs :
        /\ Returned(p, "ListModuleVersions") /\ ret[p].err = Nil
        /\ OnlyUploads(args[p])
        /\ {ret[p].modules[i].Version : i \in DOMAIN ret[p].modules} = {<<"1">>, <<"2">>}

\* the empty case of C5
ListEmptyWitness ==
    \E p \in Procs :
        /\ Returned(p, "ListModuleVersions") /\ ret[p].err = Nil
        /\ ret[p].modules = <<>>
        /\ written # {}

\* C6: a GetModule whose key held no object when it was called returns a NotFound
\* error and the empty Module.
GetAbsentIsNotFound ==
    \A p \in Procs :
        (Returned(p, "GetModule") /\ ~args[p].had)
            => /\ ret[p].err.kind = "ErrNotFound"
               /\ ret[p].module = EmptyModule

GetAbsentWitness ==
    \E p \in Procs :
        /\ Returned(p, "GetModule") /\ ~args[p].had
        /\ ret[p].err = Wrap("ErrNotFound", <<"NotFound">>)
        /\ store # <<>>

\* C7 (as claimed): GetModule reports NotFound only when no object is at the key.
NotFoundOnlyWhenAbsent ==
    \A p \in Procs :
        (Returned(p, "GetModule") /\ ret[p].err.kind = "ErrNotFound") => ~args[p].had

\* the error text the validation owes for the first empty field
FirstMissing(a) ==
    IF a.namespace = <<>> THEN "namespace not defined"
    ELSE IF a.name = <<>> THEN "name not defined"
    ELSE IF a.provider = <<>> THEN "provider not defined"
    ELSE "version not defined"

MissingField(a) ==
    a.namespace = <<>> \/ a.name = <<>> \/ a.provider = <<>> \/ a.version = <<>>

\* C8: an UploadModule with an empty field has returned, with the error that
\* names its first empty field, without any backend call.
ValidationBeforeBackend ==
    \A p \in Procs :
        (args[p].op = "UploadModule" /\ MissingField(args[p]))
            => /\ Returned(p, "UploadModule")
               /\ ret[p].err = New(FirstMissing(args[p]))
               /\ ret[p].module = EmptyModule
               /\ calls[p] = <<>>

\* an upload with only the provider and the version missing, refused for the provider
ValidationWitness ==
    \E p \in Procs :
        /\ args[p].op = "UploadModule"
        /\ args[p].namespace # <<>> /\ args[p].name # <<>>
        /\ args[p].provider = <<>> /\ args[p].version = <<>>
        /\ ret[p].err = New("provider not defined")

\* C9: a listing that went through returns no error, no Module for a key without
\* a version, and the Module of every key with a version that was under the
\* prefix when the listing started.
ListSkipsUnparsed ==
    \A p \in Procs :
        (Returned(p, "ListModuleVersions") /\ ret[p].err.kind # "ErrListFailed")
            => /\ ret[p].err = Nil
               /\ \A i \in DOMAIN ret[p].modules :
                     \E k \in DOMAIN store :
                        HasVersion(k) /\ ret[p].modules[i] = Listed(args[p], k)
               /\ \A k \in args[p].keys0 :
                     HasVersion(k) => InSeq(Listed(args[p], k), ret[p].modules)

\* a key without a version was listed first, and the keys after it were returned
ListSkipsUnparsedWitness ==
    \E p \in Procs :
        /\ Returned(p, "ListModuleVersions") /\ ret[p].err = Nil
        /\ \E k \in args[p].keys0 : ~HasVersion(k)
        /\ \E k \in args[p].keys0 :
              /\ HasVersion(k)
              /\ UploadKey(s, args[p].namespace, args[p].name, args[p].provider,
                           objectMetadata(k)["version"]) = k
              /\ InSeq(Listed(args[p], k), ret[p].modules)

\* C10: a listing that returned without error has requested every page (the
\* callback never ends the iteration) and its one result holds the Modules of the
\* keys of all pages.
ListConsumesAllPages ==
    \A p \in Procs :
        (Returned(p, "ListModuleVersions") /\ ret[p].err = Nil)
            => /\ Len(calls[p]) * PageSize >= Cardinality(args[p].keys0)
               /\ Len(ret[p].modules) >=
                     Cardinality({k \in args[p].keys0 : HasVersion(k)})

\* a listing of more than one page, with Modules from the first and from a later page
ListConsumesAllPagesWitness ==
    \E p \in Procs :
        /\ Returned(p, "ListModuleVersions") /\ ret[p].err = Nil
        /\ Len(calls[p]) >= 2
        /\ Cardinality(args[p].keys0) > PageSize
        /\ Len(ret[p].modules) >= 2

\* C11: a listing whose backend call failed on some page, also on one after pages
\* already processed, returns ErrListFailed and no Modules; a listing that returns
\* without error had no failed call, so no partial list goes with a nil error.
ListFailureReturnsNothing ==
    \A p \in Procs :
        Returned(p, "ListModuleVersions")
            => /\ (\E i \in DOMAIN calls[p] : ~calls[p][i].ok)
                    => /\ ret[p].err.kind = "ErrListFailed"
                       /\ ret[p].modules = <<>>
               /\ ret[p].err = Nil
                    => \A i \in DOMAIN calls[p] : calls[p][i].ok

\* the call failed on the second page, after a first page that held a Module
ListFailureWitness ==
    \E p \in Procs :
        /\ Returned(p, "ListModuleVersions")
        /\ Len(calls[p]) = 2 /\ calls[p][1].ok /\ ~calls[p][2].ok
        /\ \E k \in args[p].keys0 : HasVersion(k)
        /\ ret[p].err.kind = "ErrListFailed"

\* the key of an identity under the backend's prefix, in a given archive format
KeyIn(id, format) ==
    storagePath(s.bucketPrefix, id.namespace, id.name, id.provider, id.version, format)

\* C12: UploadModule writes to the key of the fixed default archive format, whatever
\* format is configured; GetModule, the existence check and the re-read inside
\* UploadModule address the key of the configured format: they find the module
\* only if that key is stored and miss it only if it was not (or was written since).
ArchiveFormatAsymmetry ==
    /\ DOMAIN lastWriter = {KeyIn(id, DefaultArchiveFormat) : id \in written}
    /\ \A p \in Procs :
          LET key == KeyIn(IdOf(args[p]), s.archiveFormat)
          IN  /\ (Returned(p, "GetModule") \/ (Returned(p, "UploadModule") /\ Len(calls[p]) = 3))
                    => /\ ret[p].err = Nil
                            => /\ key \in DOMAIN store
                               /\ ret[p].module.DownloadURL =
                                     DownloadURL(s.bucket, s.bucketRegion, key)
                       /\ (ret[p].err # Nil /\ Answered(ret[p]))
                            => key \notin DOMAIN store \/ key \in DOMAIN lastWriter
              /\ (args[p].op = "UploadModule" /\ calls[p] # <<>>)
                    => /\ calls[p][1].ok => key \in DOMAIN store
                       /\ (Len(calls[p]) > 1 /\ ~args[p].had)
                            => key \notin DOMAIN store \/ key \in DOMAIN lastWriter

\* under another configured format, an upload wrote the default-format key and its
\* re-read missed the key of the configured format
ArchiveFormatAsymmetryWitness ==
    \E p \in Procs :
        /\ s.archiveFormat # DefaultArchiveFormat
        /\ Returned(p, "UploadModule") /\ Writes(p) = 1
        /\ ret[p].err.kind = "ErrNotFound"
        /\ KeyIn(IdOf(args[p]), DefaultArchiveFormat) \in DOMAIN store
        /\ KeyIn(IdOf(args[p]), s.archiveFormat) \notin DOMAIN store

\* the region the options of a call configure: that of the last region option
RECURSIVE ConfiguredRegion(_)
ConfiguredRegion(options) ==
    IF options = <<>> THEN ""
    ELSE LET o == options[Len(options)]
         IN  IF o[1] = "WithS3StorageBucketRegion" THEN o[2]
             ELSE ConfiguredRegion(SubSeq(options, 1, Len(options) - 1))

\* C13: NewS3Storage applies all options first and then looks the region up if and
\* only if none is configured: no lookup with a configured region; without one, a
\* failed lookup returns an error and no backend, a successful one sets the region
\* before the backend is returned, so every returned backend has a region.
ConstructionProtocol ==
    /\ \A i \in DOMAIN aux.discovery : aux.discovery[i].applied = Len(aux.options)
    /\ (aux.pc = "done" /\ aux.st # NoStorage)
          => /\ Len(aux.discovery) = (IF ConfiguredRegion(aux.options) = "" THEN 1 ELSE 0)
             /\ ConfiguredRegion(aux.options) # ""
                  => /\ aux.err = Nil
                     /\ aux.backend.bucketRegion = ConfiguredRegion(aux.options)
             /\ (aux.discovery # <<>> /\ ~aux.discovery[1].ok)
                  => /\ aux.err.kind = "failed to determine bucket region"
                     /\ aux.backend = NoStorage
             /\ (aux.discovery # <<>> /\ aux.discovery[1].ok)
                  => /\ aux.err = Nil
                     /\ aux.backend.bucketRegion \in BucketRegions
    /\ (aux.pc = "done" /\ aux.backend # NoStorage) => aux.backend.bucketRegion # ""
    /\ (aux.pc = "done" /\ aux.backend = NoStorage) => aux.err # Nil

\* a region option and a later one that clears it: the region was looked up after
\* both, and the backend returned carries the region found
ConstructionWitness ==
    /\ aux.pc = "done"
    /\ Len(aux.options) = 2
    /\ aux.options[1] = <<"WithS3StorageBucketRegion", "eu">>
    /\ aux.discovery = <<[ok |-> TRUE, applied |-> 2]>>
    /\ aux.backend # NoStorage
    /\ aux.backend.bucketRegion = "us"

\* no field of the identity holds the separator of the key's segments
NoSeparator(id) ==
    \A f \in {id.namespace, id.name, id.provider, id.version} : ~InSeq("/", f)

\* C14 (as claimed): under one prefix and format, two distinct identity tuples of
\* non-empty strings are encoded into distinct keys.
KeyEncodingInjective ==
    (aux.pc \in {"keys", "parsed"} /\ aux.a # aux.b) => aux.ka # aux.kb

\* the encoding is injective over the tuples whose fields hold no "/"
KeyEncodingInjectiveNoSeparator ==
    (aux.pc \in {"keys", "parsed"} /\ aux.a # aux.b /\ NoSeparator(aux.a) /\ NoSeparator(aux.b))
        => aux.ka # aux.kb

\* C15 (as claimed): the key an identity tuple is encoded into is parsed back by
\* the listing's metadata extraction into the tuple's own version.
RoundTripVersion ==
    aux.pc = "parsed"
        => /\ "version" \in DOMAIN aux.meta
           /\ aux.meta["version"] = aux.a.version

\* the version comes back for the tuples whose fields hold no "/"
RoundTripVersionNoSeparator ==
    (aux.pc = "parsed" /\ NoSeparator(aux.a))
        => /\ "version" \in DOMAIN aux.meta
           /\ aux.meta["version"] = aux.a.version

\* C16 (as claimed): once the caller's context is cancelled, or its deadline has
\* fired, during an operation, the operation issues no further backend call.
ContextHonoured ==
    \A p \in Procs : ctx[p] # "ignored"

\* C17: the backend calls of one UploadModule are, in this order and each at most
\* once: the existence probe, the write (only if the probe did not find the
\* module), the re-read (only if the write succeeded); a failed write returns
\* ErrUploadFailed with no re-read, and the Module of a success is the re-read's.
UploadCallOrder ==
    \A p \in Procs :
        args[p].op = "UploadModule"
            => LET c == calls[p]
               IN  /\ Len(c) <= 3
                   /\ Len(c) >= 1 => c[1].call = "HeadObject"
                   /\ Len(c) >= 2 => c[2].call = "Upload" /\ ~c[1].ok
                   /\ Len(c) = 3 => c[3].call = "HeadObject" /\ c[2].ok
                   /\ pc[p] = "upload" => Len(c) = 1
                   /\ pc[p] = "reread" => Len(c) = 2 /\ c[2].ok
                   /\ Returned(p, "UploadModule")
                        => /\ Len(c) = 2 <=> ret[p].err.kind = "ErrUploadFailed"
                           /\ Len(c) = 2 => ~c[2].ok
                           /\ ret[p].err = Nil
                                => /\ Len(c) = 3 /\ c[3].ok
                                   /\ ret[p].module =
                                         Module(args[p].namespace, args[p].name,
                                                args[p].provider, args[p].version,
                                                DownloadURL(s.bucket, s.bucketRegion,
                                                            KeyIn(IdOf(args[p]), s.archiveFormat)))

\* one caller's upload ran probe, write and re-read and returned the Module, and
\* the other's upload ended at a failed write
UploadCallOrderWitness ==
    \E p \in Procs, q \in Procs :
        /\ Returned(p, "UploadModule") /\ ret[p].err = Nil /\ Len(calls[p]) = 3
        /\ Returned(q, "UploadModule") /\ ret[q].err.kind = "ErrUploadFailed"
        /\ Len(calls[q]) = 2

\* C18 (as claimed): every Module a ListModuleVersions returned is one that
\* GetModule, called in the same store state with the listing's namespace, name and
\* provider and the Module's version, returns without error and with the same
\* DownloadURL. Stated for listings of objects that UploadModule wrote.
ListGetAgreement ==
    \A p \in Procs :
        (/\ Returned(p, "ListModuleVersions") /\ ret[p].err = Nil
         /\ OnlyUploads(args[p])
         /\ args[p].keys0 = {k \in DOMAIN store :
                                HasPrefix(k, storagePrefix(s.bucketPrefix, args[p].namespace,
                                                           args[p].name, args[p].provider))})
            => \A i \in DOMAIN ret[p].modules :
                  LET m == ret[p].modules[i]
                      g == GetModule(s, store, args[p].namespace, args[p].name,
                                     args[p].provider, m.Version, FALSE)
                  IN  /\ g.err = Nil
                      /\ g.module.DownloadURL = m.DownloadURL

\* with the default archive format configured the listing and GetModule agree
ListGetAgreementDefaultFormat ==
    s.archiveFormat = DefaultArchiveFormat => ListGetAgreement

\* C19: GetModule and ListModuleVersions are read-only: the store changes only in
\* the write step of an UploadModule, never in a step of the two, whatever they
\* return; and no step of any operation changes the backend's configuration
\* (bucket, prefix, archive format, region).
ReadsLeaveStore ==
    [][/\ s' = s
       /\ store' # store
            => \E p \in Procs :
                  /\ args[p].op = "UploadModule"
                  /\ pc[p] = "upload" /\ pc'[p] = "reread"
       /\ \A p \in Procs :
            (ret'[p] # ret[p] /\ ret'[p].op \in {"GetModule", "ListModuleVersions"})
                => store' = store]_vars

\* over a store that holds an uploaded object, a GetModule has returned a Module
\* and the object is as UploadModule wrote it
ReadsLeaveStoreWitness ==
    \E p \in Procs :
        /\ Returned(p, "GetModule") /\ ret[p].err = Nil
        /\ written # {}
        /\ \A k \in DOMAIN lastWriter : store[k] = BodyOf[lastWriter[k]]

\* the versions a ListModuleVersions of t's (namespace, name, provider) reports
\* when it runs over the store st undisturbed
ListedVersions(st, t) ==
    LET keys == {k \in DOMAIN st :
                    HasPrefix(k, ListInputPrefix(s, t.namespace, t.name, t.provider))}
        mods == PageModules(s, <<>>, Sorted(keys), t.namespace, t.name, t.provider)
    IN  {mods[i].Version : i \in DOMAIN mods}

\* C20: the set of stored keys only grows: an object that exists at a key exists
\* at that key in every later state, and a version a listing reports is reported
\* by every later listing.
StoredKeysOnlyGrow ==
    [][store' # store
          => /\ DOMAIN store \subseteq DOMAIN store'
             /\ \A t \in Triples :
                   ListedVersions(store, t) \subseteq ListedVersions(store', t)]_vars

\* the objects found at start and two uploaded ones are all stored, and both
\* uploaded versions are listed
StoredKeysOnlyGrowWitness ==
    /\ ForeignKeys(s.bucketPrefix) \subseteq DOMAIN store
    /\ \E t \in Triples :
          /\ Cardinality(ListedVersions(store, t)) >= 2
          /\ Cardinality({id \in written : id.namespace = t.namespace /\ id.name = t.name
                                            /\ id.provider = t.provider}) >= 2

====
